---- MODULE Spec2Model ----
(***************************************************************************)
(* A model of napping's Session.Send (src/api.go) and of the Response      *)
(* accessors (src/request.go).                                             *)
(*                                                                         *)
(* Go pointers and interface values that may be nil are sequences of       *)
(* length at most one: <<>> is nil, <<v>> points at (holds) v.  Byte       *)
(* slices and strings whose content the code inspects are sequences of     *)
(* one-character strings.  url.Values and http.Header are functions from   *)
(* a set of keys to sequences of values.                                   *)
(***************************************************************************)
EXTENDS Integers, Sequences, FiniteSets, TLC

VARIABLES session, procs, clients, crashed

vars == <<session, procs, clients, crashed>>

\* Number of goroutines that call Send on the one Session.
NumProcs == 2
\* Longest query string (in key=value pairs) embedded in a request's Url.
MaxQueryLen == 2

Procs == 1..NumProcs

Nil == <<>>
Ptr(v) == <<v>>
IsNil(p) == Len(p) = 0
Deref(p) == p[1]

EmptyMap == [k \in {} |-> <<>>]

\* All maps (url.Values, http.Header) from a subset of keys to lists in vals.
MapsOver(keys, vals) == UNION {[d -> vals] : d \in SUBSET keys}

\* Sequences over S of length at most n.
SeqUpTo(S, n) == UNION {[1..i -> S] : i \in 0..n}

-----------------------------------------------------------------------------
(* net/url as Send uses it *)

ParamKeys == {"a", "b"}
\* The keys in the order sort.Strings gives them (Values.Encode sorts by key).
SortedParamKeys == <<"a", "b">>

\* The query string of a URL, "k=v&k=v...", as its sequence of pairs.
QueryStrings == SeqUpTo(ParamKeys \X {"u"}, MaxQueryLen)

\* The values of the pairs of query string q whose key is k, in order.
RECURSIVE QueryValues(_, _)
QueryValues(q, k) ==
    IF q = <<>> THEN <<>>
    ELSE IF Head(q)[1] = k THEN <<Head(q)[2]>> \o QueryValues(Tail(q), k)
    ELSE QueryValues(Tail(q), k)

\* u.Query(): url.ParseQuery of the raw query, a map that is never nil.
Query(u) ==
    [k \in {u.RawQuery[i][1] : i \in 1..Len(u.RawQuery)} |-> QueryValues(u.RawQuery, k)]

\* The pairs k=v of one key, in the order of its list.
KeyPairs(k, vs) == [i \in 1..Len(vs) |-> <<k, vs[i]>>]

\* p.Encode(): keys sorted, each key's values in order; a key whose list is
\* empty contributes nothing.
RECURSIVE EncodeFrom(_, _)
EncodeFrom(p, i) ==
    IF i > Len(SortedParamKeys) THEN <<>>
    ELSE LET k == SortedParamKeys[i]
         IN  (IF k \in DOMAIN p THEN KeyPairs(k, p[k]) ELSE <<>>) \o EncodeFrom(p, i + 1)

Encode(p) == EncodeFrom(p, 1)

\* Mutant of Parse: the parse error is lost and the components are used.
Parse_ErrorLost(raw) ==
    [err |-> Nil,
     u |-> Ptr([Scheme |-> raw.scheme, User |-> raw.user, RawQuery |-> raw.query])]

\* url.Parse(r.Url): the raw text either parses into its components or is
\* rejected (e.g. "http://[::1", ":foo").
Parse(raw) ==
    IF raw.malformed
    THEN [err |-> Ptr("parse error"), u |-> Nil]
    ELSE [err |-> Nil,
          u |-> Ptr([Scheme |-> raw.scheme, User |-> raw.user, RawQuery |-> raw.query])]

-----------------------------------------------------------------------------
(* net/http's Header as Send uses it *)

HeaderKeys == {"Accept", "Content-Type", "content-type"}

\* textproto.CanonicalMIMEHeaderKey, which Header.Get/Set/Add apply to the key.
Canon(k) == IF k = "content-type" THEN "Content-Type" ELSE k

\* Header.Get: the first value stored under the canonical key, or "".
HeaderGet(h, k) ==
    IF Canon(k) \in DOMAIN h /\ Len(h[Canon(k)]) > 0 THEN h[Canon(k)][1] ELSE ""

\* Header.Set: the canonical key's list becomes the single value v.
HeaderSet(h, k, v) ==
    [x \in DOMAIN h \cup {Canon(k)} |-> IF x = Canon(k) THEN <<v>> ELSE h[x]]

\* Header.Add: v is appended to the canonical key's list.
HeaderAdd(h, k, v) ==
    [x \in DOMAIN h \cup {Canon(k)} |->
        IF x = Canon(k)
        THEN (IF x \in DOMAIN h THEN h[x] ELSE <<>>) \o <<v>>
        ELSE h[x]]

-----------------------------------------------------------------------------
(* Session.Send, api.go:102-268: the pure parts *)

\* strings.ToUpper on the method names the model sends.
ToUpper(m) ==
    CASE m = "get" -> "GET"
      [] m = "b d" -> "B D"
      [] OTHER -> m

\* One layer laid over another: p[k] = v for every k, v of the layer.
Override(base, layer) ==
    [k \in DOMAIN base \cup DOMAIN layer |->
        IF k \in DOMAIN layer THEN layer[k] ELSE base[k]]

\* Mutant of MergeParams: the session defaults are laid over the URL's query.
MergeParams_SessionOverUrl(sp, uq, rp) ==
    LET p0 == Override(EmptyMap, uq)
        p1 == IF IsNil(sp) THEN p0 ELSE Override(p0, Deref(sp))
    IN  IF IsNil(rp) THEN p1 ELSE Override(p1, Deref(rp))

\* api.go:114-134: session defaults, then the URL's own query, then the
\* request's params, each layer replacing the entries of the ones before.
MergeParams(sp, uq, rp) ==
    LET p0 == IF IsNil(sp) THEN EmptyMap ELSE Override(EmptyMap, Deref(sp))
        p1 == Override(p0, uq)
    IN  IF IsNil(rp) THEN p1 ELSE Override(p1, Deref(rp))

\* api.go:143-149: header.Set(k, s.Header.Get(k)) for every key of the
\* session's header.
SessionHeader(sh) ==
    IF IsNil(sh) THEN EmptyMap
    ELSE [ck \in {Canon(k) : k \in DOMAIN Deref(sh)} |-> <<HeaderGet(Deref(sh), ck)>>]

\* json.Marshal of a payload value, by what the value serializes to.
Marshal(v) ==
    CASE v.json = "object" -> [data |-> <<"{", "a", "}">>, err |-> Nil]
      [] v.json = "array"  -> [data |-> <<"[", "1", "]">>, err |-> Nil]
      [] v.json = "null"   -> [data |-> <<"n", "u", "l", "l">>, err |-> Nil]
      [] v.json = "scalar" -> [data |-> <<"7">>, err |-> Nil]
      [] OTHER             -> [data |-> <<>>, err |-> Ptr("json: unsupported type")]

\* api.go:166-174, the reflect.Slice case: []byte as it is, []interface{}
\* marshalled with the error dropped, any other slice type nothing.
EncodeSlice(v) ==
    IF v.type = "bytes" THEN v.data
    ELSE IF v.type = "ifaces" THEN Marshal(v).data
    ELSE <<>>

\* api.go:152-178: what the payload switch leaves in r.Payload, bydata and
\* err, and whether the type assertion of line 164 panics.
EncodePayload(v) ==
    CASE v.kind = "nil" ->
            [panic |-> FALSE, err |-> Nil, Payload |-> v, bydata |-> <<>>]
      [] v.kind = "Reader" ->
            [panic |-> FALSE, err |-> Nil, Payload |-> v, bydata |-> <<>>]
      [] v.kind \in {"Map", "Struct"} ->
            [panic |-> FALSE, err |-> Marshal(v).err, Payload |-> v,
             bydata |-> Marshal(v).data]
      [] v.kind = "String" ->
            IF v.type = "string"
            THEN [panic |-> FALSE, err |-> Nil,
                  Payload |-> [v EXCEPT !.kind = "Slice", !.type = "bytes"],
                  bydata |-> v.data]
            ELSE [panic |-> TRUE, err |-> Nil, Payload |-> v, bydata |-> <<>>]
      [] v.kind = "Slice" ->
            [panic |-> FALSE, err |-> Nil, Payload |-> v, bydata |-> EncodeSlice(v)]
      [] OTHER ->
            [panic |-> FALSE, err |-> Nil, Payload |-> v, bydata |-> <<>>]

\* api.go:181-182: the bytes open and close with a matching {} or [] pair.
LooksLikeJSON(b) ==
    \/ b[1] = "{" /\ b[Len(b)] = "}"
    \/ b[1] = "[" /\ b[Len(b)] = "]"

\* api.go:179-180: the body reader handed to http.NewRequest.
PayloadReader(bydata) ==
    IF Len(bydata) # 0 THEN Ptr([kind |-> "Buffer", data |-> bydata]) ELSE Nil

\* api.go:179-185: the header after the payload switch.
PayloadHeader(header, bydata) ==
    IF Len(bydata) # 0 /\ LooksLikeJSON(bydata)
    THEN HeaderSet(header, "Content-Type", "application/json")
    ELSE header

\* http.NewRequest rejects a method that is not a token.
ValidMethod(m) == m # "B D"

\* Mutant of ChooseUserinfo: the session's credentials are preferred to the
\* request's.
ChooseUserinfo_SessionFirst(uu, su, ru) ==
    IF ~IsNil(su) THEN su
    ELSE IF ~IsNil(ru) THEN ru
    ELSE uu

\* api.go:196-206: URL credentials, overridden by the session's, overridden
\* by the request's.
ChooseUserinfo(uu, su, ru) ==
    IF ~IsNil(ru) THEN ru
    ELSE IF ~IsNil(su) THEN su
    ELSE uu

\* api.go:207-211 panics on v[0] when some key's value list is empty.
RequestHeaderPanics(rh) ==
    ~IsNil(rh) /\ \E k \in DOMAIN Deref(rh) : Len(Deref(rh)[k]) = 0

\* The ways range may end over the request header's keys: for every
\* canonical key, which of the keys that spell it is visited last.
LastVisited(rh) ==
    IF IsNil(rh) THEN {EmptyMap}
    ELSE LET h == Deref(rh)
         IN  {f \in [{Canon(k) : k \in DOMAIN h} -> DOMAIN h] :
                 \A ck \in DOMAIN f : Canon(f[ck]) = ck}

\* api.go:207-211: header.Set(k, v[0]) for every key of the request header.
RequestHeader(header, rh, last) ==
    IF IsNil(rh) THEN header
    ELSE Override(header, [ck \in DOMAIN last |-> <<Deref(rh)[last[ck]][1]>>])

\* api.go:212-214: Accept defaults to */*.
DefaultAccept(header) ==
    IF HeaderGet(header, "Accept") = "" THEN HeaderAdd(header, "Accept", "*/*") ELSE header

\* Mutant of DeferredClose: the body is closed only after a read that
\* succeeded.
DeferredClose_AfterGoodRead(notProcessBody, readErr) == ~notProcessBody /\ ~readErr

\* api.go:246-247: the deferred resp.Body.Close() is registered only when the
\* body is captured; it then runs on every return that follows.
DeferredClose(notProcessBody, readErr) == ~notProcessBody

\* json.Unmarshal accepts these response bodies.
ValidJSON(data) == data \in {<<"{", "a", "}">>, <<"[", "1", "]">>}

\* Mutant of DecodeInto: the error destination is decoded into from status
\* 200 on.
DecodeInto_ErrorFrom200(status, result, error) ==
    (IF status <= 200 /\ ~IsNil(result) THEN {"Result"} ELSE {})
    \cup (IF status >= 200 /\ ~IsNil(error) THEN {"Error"} ELSE {})

\* api.go:256-261: the destinations json.Unmarshal is called on.
DecodeInto(status, result, error) ==
    (IF status <= 200 /\ ~IsNil(result) THEN {"Result"} ELSE {})
    \cup (IF status > 200 /\ ~IsNil(error) THEN {"Error"} ELSE {})

\* json.Unmarshal(body, dest): what the destination holds afterwards; a
\* body that does not parse leaves it as it was.
Unmarshal(data, held) == IF ValidJSON(data) THEN Ptr(data) ELSE held

-----------------------------------------------------------------------------
(* The callers' requests and session settings *)

NoPayload == [kind |-> "nil", type |-> "", json |-> "", data |-> <<>>]

Texts == {<<>>, <<"h", "i">>, <<"{", "a", "}">>, <<"[", "1", "]">>, <<"{", "1", "]">>}

Payloads ==
    {NoPayload, [kind |-> "Reader", type |-> "", json |-> "", data |-> <<"h", "i">>]}
    \cup [kind : {"Map"}, type : {""}, json : {"object", "null", "error"}, data : {<<>>}]
    \cup [kind : {"Struct"}, type : {""}, json : {"object", "scalar", "error"}, data : {<<>>}]
    \cup [kind : {"String"}, type : {"string"}, json : {""}, data : Texts]
    \cup [kind : {"String"}, type : {"named"}, json : {""}, data : {<<"h", "i">>}]
    \cup [kind : {"Slice"}, type : {"bytes"}, json : {""}, data : Texts]
    \cup [kind : {"Slice"}, type : {"ifaces"}, json : {"array", "null", "error"}, data : {<<>>}]
    \cup [kind : {"Slice"}, type : {"ints", "namedbytes"}, json : {"array"}, data : {<<>>}]
    \cup [kind : {"Other"}, type : {"int", "ptr"}, json : {"scalar"}, data : {<<>>}]

Credentials(who) == Ptr([Username |-> who, Password |-> "pw"])

DefaultUrl == [malformed |-> FALSE, scheme |-> "https", user |-> Nil, query |-> <<>>]

\* A Request as a caller builds it (request.go:32-53).  Result and Error are
\* the destinations Send reads at api.go:256-260 and the Session methods
\* set at api.go:276-277; the last four fields are the ones Send populates.
DefaultRequest ==
    [Url |-> DefaultUrl, Method |-> "get", Params |-> Nil, Payload |-> NoPayload,
     Result |-> Nil, Error |-> Nil, NotProcessBody |-> FALSE,
     Userinfo |-> Nil, Header |-> Nil, Transport |-> Nil,
     timestamp |-> FALSE, status |-> 0, response |-> FALSE, body |-> <<>>]

DefaultSession == [Client |-> Nil, Userinfo |-> Nil, Header |-> Nil, Params |-> Nil]

\* A client the caller made and stored in Session.Client.
CallerClient == [by |-> "caller", n |-> 0, Transport |-> Nil]

OptionalMaps(keys, vals) == {Nil} \cup {Ptr(m) : m \in MapsOver(keys, vals)}

ParamWorkloads ==
    {[s |-> [DefaultSession EXCEPT !.Params = sp],
      r |-> [DefaultRequest EXCEPT !.Url.query = q, !.Params = rp]] :
        sp \in OptionalMaps(ParamKeys, {<<"s">>}),
        q \in QueryStrings,
        rp \in OptionalMaps(ParamKeys, {<<>>, <<"r">>})}

AuthWorkloads ==
    {[s |-> [DefaultSession EXCEPT !.Userinfo = su],
      r |-> [DefaultRequest EXCEPT !.Url.user = uu, !.Url.scheme = sc, !.Userinfo = ru]] :
        su \in {Nil, Credentials("session")},
        uu \in {Nil, Credentials("url")},
        ru \in {Nil, Credentials("request")},
        sc \in {"http", "https"}}

JSONMap == [kind |-> "Map", type |-> "", json |-> "object", data |-> <<>>]

HeaderWorkloads ==
    {[s |-> [DefaultSession EXCEPT !.Header = sh],
      r |-> [DefaultRequest EXCEPT !.Header = rh, !.Payload = v, !.Method = "POST"]] :
        sh \in OptionalMaps(HeaderKeys, {<<"text/plain">>}),
        rh \in OptionalMaps(HeaderKeys, {<<>>, <<"text/xml">>, <<"text/csv">>}),
        v \in {NoPayload, JSONMap}}

ContentType(t) == Ptr([k \in {"Content-Type"} |-> <<t>>])

PayloadWorkloads ==
    {[s |-> [DefaultSession EXCEPT !.Header = sh],
      r |-> [DefaultRequest EXCEPT !.Header = rh, !.Payload = v, !.Method = "POST"]] :
        sh \in {Nil, ContentType("text/plain")},
        rh \in {Nil, ContentType("text/xml")},
        v \in Payloads}

BodyWorkloads ==
    {[s |-> DefaultSession,
      r |-> [DefaultRequest EXCEPT !.NotProcessBody = n, !.Result = res, !.Error = e]] :
        n \in BOOLEAN, res \in {Nil, Ptr("result")}, e \in {Nil, Ptr("error")}}

ClientWorkloads ==
    {[s |-> [DefaultSession EXCEPT !.Client = cl],
      r |-> [DefaultRequest EXCEPT !.Transport = t]] :
        cl \in {Nil, Ptr(CallerClient)}, t \in {Nil, Ptr("transport")}}

FailingMap == [kind |-> "Map", type |-> "", json |-> "error", data |-> <<>>]

AbortWorkloads ==
    {[s |-> DefaultSession,
      r |-> [DefaultRequest EXCEPT !.Url.malformed = bad, !.Method = m,
                                   !.Payload = v, !.Header = rh]] :
        bad \in BOOLEAN, m \in {"get", "POST", "b d"},
        v \in {NoPayload, FailingMap},
        rh \in {Nil, Ptr([k \in {"Accept"} |-> <<>>])}}

Workloads ==
    ParamWorkloads \cup AuthWorkloads \cup HeaderWorkloads \cup PayloadWorkloads
    \cup BodyWorkloads \cup ClientWorkloads \cup AbortWorkloads

\* What the transport may answer to one request.
Statuses == {101, 200, 201, 404}
Bodies == {<<>>, <<"{", "a", "}">>, <<"o", "o", "p", "s">>}

Outcomes ==
    [err : {Ptr("dial error")}, StatusCode : {0}, data : {<<>>}, readErr : {FALSE}]
    \cup [err : {Nil}, StatusCode : Statuses, data : Bodies, readErr : BOOLEAN]

-----------------------------------------------------------------------------
(* Session.Send as a state machine *)

Returned(how, r, err, req, warned) ==
    [how |-> how, r |-> r, err |-> err, req |-> req, warned |-> warned]

\* api.go:103-226: everything Send does before it looks at s.Client.  how is
\* "err" (Send returns err), "panic", or "ok" (req is ready to be sent).
Compose(s, r0, last) ==
    LET r1 == [r0 EXCEPT !.Method = ToUpper(@)]
        parsed == Parse(r1.Url)
    IN  IF ~IsNil(parsed.err) THEN Returned("err", r1, parsed.err, Nil, FALSE)
        ELSE
        LET u == Deref(parsed.u)
            p == MergeParams(s.Params, Query(u), r1.Params)
            sent == [u EXCEPT !.RawQuery = Encode(p)]
            r2 == [r1 EXCEPT !.Params = Ptr(p)]
            enc == EncodePayload(r2.Payload)
            r3 == [r2 EXCEPT !.Payload = enc.Payload]
            header == PayloadHeader(SessionHeader(s.Header), enc.bydata)
            userinfo == ChooseUserinfo(u.User, s.Userinfo, r3.Userinfo)
        IN  IF enc.panic THEN Returned("panic", r3, Nil, Nil, FALSE)
            ELSE IF ~IsNil(enc.err) THEN Returned("err", r3, enc.err, Nil, FALSE)
            ELSE IF ~ValidMethod(r3.Method)
                 THEN Returned("err", r3, Ptr("invalid method"), Nil, FALSE)
            ELSE IF RequestHeaderPanics(r3.Header) THEN Returned("panic", r3, Nil, Nil, FALSE)
            ELSE Returned("ok", [r3 EXCEPT !.timestamp = TRUE], Nil,
                          Ptr([Method |-> r3.Method, URL |-> sent,
                               Header |-> DefaultAccept(RequestHeader(header, r3.Header, last)),
                               Body |-> PayloadReader(enc.bydata),
                               BasicAuth |-> userinfo]),
                          ~IsNil(userinfo) /\ u.Scheme # "https")

IdleProc ==
    [pc |-> "idle", arg |-> DefaultRequest, r |-> DefaultRequest, req |-> Nil,
     client |-> Nil, wire |-> Nil, resp |-> Nil, response |-> Nil, err |-> Nil,
     result |-> Nil, error |-> Nil, decoded |-> {}, warned |-> FALSE]

\* The session's settings, which Send reads and never writes.
Settings(s) == [Userinfo |-> s.Userinfo, Header |-> s.Header, Params |-> s.Params]

\* The requests the callers of a session with these settings send.
RequestsFor(W, s) == {w.r : w \in {x \in W : Settings(x.s) = Settings(s)}}

\* A caller passes a fresh descriptor to s.Send, which runs up to line 226.
Begin(c, W) ==
    /\ ~crashed
    /\ procs[c].pc = "idle"
    /\ \E r \in RequestsFor(W, session) :
       \E last \in LastVisited(r.Header) :
          LET out == Compose(session, r, last)
          IN  /\ procs' = [procs EXCEPT ![c] =
                    [IdleProc EXCEPT
                        !.pc = IF out.how = "ok" THEN "client"
                               ELSE IF out.how = "err" THEN "done" ELSE "panic",
                        !.arg = r, !.r = out.r, !.req = out.req,
                        !.err = out.err, !.warned = out.warned]]
              /\ crashed' = (out.how = "panic")
    /\ UNCHANGED <<session, clients>>

\* api.go:227-229: the read of s.Client.
CheckClient(c) ==
    /\ ~crashed
    /\ procs[c].pc = "client"
    /\ procs' = [procs EXCEPT ![c] =
            IF ~IsNil(session.Client)
            THEN [@ EXCEPT !.pc = "do", !.client = session.Client]
            ELSE [@ EXCEPT !.pc = "create"]]
    /\ UNCHANGED <<session, clients, crashed>>

\* api.go:231-236: a new http.Client, with the request's Transport if it has
\* one, stored in s.Client.
CreateClient(c) ==
    /\ ~crashed
    /\ procs[c].pc = "create"
    /\ LET client == [by |-> "Send", n |-> Len(clients) + 1,
                      Transport |-> procs[c].r.Transport]
       IN  /\ clients' = Append(clients, client)
           /\ session' = [session EXCEPT !.Client = Ptr(client)]
           /\ procs' = [procs EXCEPT ![c] = [@ EXCEPT !.pc = "do", !.client = Ptr(client)]]
    /\ UNCHANGED crashed

\* api.go:238-244: client.Do(req); the transport answers with one of O.
Do(c, O) ==
    /\ ~crashed
    /\ procs[c].pc = "do"
    /\ \E o \in O :
          LET me == procs[c]
              wire == Ptr([req |-> Deref(me.req), client |-> Deref(me.client)])
          IN  procs' = [procs EXCEPT ![c] =
                IF ~IsNil(o.err)
                THEN [me EXCEPT !.pc = "done", !.err = o.err, !.wire = wire]
                ELSE [me EXCEPT
                        !.pc = "body",
                        !.wire = wire,
                        !.resp = Ptr([StatusCode |-> o.StatusCode, data |-> o.data,
                                      readErr |-> o.readErr, closed |-> FALSE]),
                        !.r = [@ EXCEPT !.status = o.StatusCode, !.response = TRUE]]]
    /\ UNCHANGED <<session, clients, crashed>>

\* api.go:246-267: the body is read, closed and decoded, and Send returns.
Finish(c) ==
    /\ ~crashed
    /\ procs[c].pc = "body"
    /\ LET me == procs[c]
           resp == Deref(me.resp)
           closed == DeferredClose(me.r.NotProcessBody, resp.readErr)
           r1 == IF me.r.NotProcessBody THEN me.r ELSE [me.r EXCEPT !.body = resp.data]
           into == IF me.r.NotProcessBody \/ resp.readErr \/ Len(r1.body) = 0 THEN {}
                   ELSE DecodeInto(resp.StatusCode, me.r.Result, me.r.Error)
       IN  procs' = [procs EXCEPT ![c] =
              [me EXCEPT
                 !.pc = "done",
                 !.r = r1,
                 !.resp = Ptr([resp EXCEPT !.closed = closed]),
                 !.err = IF ~me.r.NotProcessBody /\ resp.readErr
                         THEN Ptr("read error") ELSE Nil,
                 !.response = IF ~me.r.NotProcessBody /\ resp.readErr
                              THEN Nil ELSE Ptr(r1),
                 !.decoded = into,
                 !.result = IF "Result" \in into THEN Unmarshal(r1.body, @) ELSE @,
                 !.error = IF "Error" \in into THEN Unmarshal(r1.body, @) ELSE @]]
    /\ UNCHANGED <<session, clients, crashed>>

\* api.go:267: Send has returned (response, err); the caller takes them and
\* is free to call again.
Return(c) ==
    /\ ~crashed
    /\ procs[c].pc = "done"
    /\ procs' = [procs EXCEPT ![c] = IdleProc]
    /\ UNCHANGED <<session, clients, crashed>>

\* One goroutine calls Send on a Session again and again.
Init ==
    /\ session \in {w.s : w \in Workloads}
    /\ procs = [c \in Procs |-> IdleProc]
    /\ clients = <<>>
    /\ crashed = FALSE

Next ==
    \/ Begin(1, Workloads)
    \/ CheckClient(1)
    \/ CreateClient(1)
    \/ Do(1, Outcomes)
    \/ Finish(1)
    \/ Return(1)

Spec == Init /\ [][Next]_vars

\* Several goroutines call Send on one Session, overlapping in time.
ConcOutcomes ==
    {o \in Outcomes : o.StatusCode \in {0, 200} /\ ~o.readErr /\ o.data # <<>>}
    \cup {o \in Outcomes : ~IsNil(o.err)}

InitConc ==
    /\ session \in {w.s : w \in ClientWorkloads}
    /\ procs = [c \in Procs |-> IdleProc]
    /\ clients = <<>>
    /\ crashed = FALSE

NextConc ==
    \E c \in Procs :
        \/ Begin(c, ClientWorkloads)
        \/ CheckClient(c)
        \/ CreateClient(c)
        \/ Do(c, ConcOutcomes)
        \/ Finish(c)
        \/ Return(c)

SpecConc == InitConc /\ [][NextConc]_vars

-----------------------------------------------------------------------------
(* Properties *)

Started(c) == procs[c].pc # "idle"
Sent(c) == ~IsNil(procs[c].wire)
Wire(c) == Deref(procs[c].wire)
Has(m, k) == ~IsNil(m) /\ k \in DOMAIN Deref(m)

\* C1: a payload that is an io.Reader is itself the body of the request the
\* transport is given.
C1_ReaderPayloadIsTheBody ==
    \A c \in Procs :
        Sent(c) /\ procs[c].arg.Payload.kind = "Reader"
            => Wire(c).req.Body = Ptr(procs[c].arg.Payload)

\* The values the URL's own query gives key k, and whether it names k at all.
InUrl(c, k) == \E i \in 1..Len(procs[c].arg.Url.query) : procs[c].arg.Url.query[i][1] = k
UrlValue(c, k) == QueryValues(procs[c].arg.Url.query, k)

\* The merged params of a send whose URL parsed: stored back in r.Params.
Merged(c) == Deref(procs[c].r.Params)
ParamsMerged(c) == Started(c) /\ ~procs[c].arg.Url.malformed

\* All three layers of params hold at least one key.
AllLayersPopulated(c) ==
    /\ ~IsNil(session.Params) /\ DOMAIN Deref(session.Params) # {}
    /\ procs[c].arg.Url.query # <<>>
    /\ ~IsNil(procs[c].arg.Params) /\ DOMAIN Deref(procs[c].arg.Params) # {}

\* C2 (as claimed): with all three layers populated, for every key the
\* request's value wins over the session default, and the session default
\* wins over the URL's value.
C2_SessionDefaultBeatsUrl ==
    \A c \in Procs : ParamsMerged(c) /\ AllLayersPopulated(c) =>
        \A k \in ParamKeys :
            LET rp == procs[c].arg.Params
                sp == session.Params
            IN  /\ Has(rp, k) => Merged(c)[k] = Deref(rp)[k]
                /\ ~Has(rp, k) /\ Has(sp, k) => Merged(c)[k] = Deref(sp)[k]
                /\ ~Has(rp, k) /\ ~Has(sp, k) /\ InUrl(c, k) => Merged(c)[k] = UrlValue(c, k)

\* C2 (amended): for every key, the request's value wins over the URL's
\* value, and the URL's value wins over the session default; the merged set
\* is what r.Params holds and what the sent URL's query encodes.
C2_UrlBeatsSessionDefault ==
    \A c \in Procs : ParamsMerged(c) =>
        \A k \in ParamKeys :
            LET rp == procs[c].arg.Params
                sp == session.Params
                winner == IF Has(rp, k) THEN Deref(rp)[k]
                          ELSE IF InUrl(c, k) THEN UrlValue(c, k)
                          ELSE IF Has(sp, k) THEN Deref(sp)[k]
                          ELSE <<>>
            IN  /\ k \in DOMAIN Merged(c) <=> (Has(rp, k) \/ InUrl(c, k) \/ Has(sp, k))
                /\ k \in DOMAIN Merged(c) => Merged(c)[k] = winner
                /\ ~IsNil(procs[c].req) =>
                      QueryValues(Deref(procs[c].req).URL.RawQuery, k) = winner

\* C2 witness: a request was sent with all three layers populated, one key
\* in all three and one key in the session's and the URL's only.
C2_Witness ==
    \E c \in Procs :
        /\ Sent(c)
        /\ Has(session.Params, "a") /\ InUrl(c, "a") /\ ~Has(procs[c].arg.Params, "a")
        /\ Has(session.Params, "b") /\ InUrl(c, "b") /\ Has(procs[c].arg.Params, "b")
        /\ Merged(c)["a"] = <<"u">>
        /\ Merged(c)["b"] = <<"r">>

\* C3: a Content-Type supplied in the session's header or in the request's
\* header is the Content-Type of the request the transport is given.
C3_SuppliedContentTypeIsSent ==
    \A c \in Procs : Sent(c) =>
        LET rh == procs[c].arg.Header
            sh == session.Header
            fromRequest == IF IsNil(rh) THEN {}
                           ELSE {Deref(rh)[k][1] :
                                    k \in {x \in DOMAIN Deref(rh) : Canon(x) = "Content-Type"}}
            sentType == HeaderGet(Wire(c).req.Header, "Content-Type")
        IN  /\ fromRequest # {} => sentType \in fromRequest
            /\ fromRequest = {} /\ Has(sh, "Content-Type") =>
                  sentType = Deref(sh)["Content-Type"][1]

\* The payloads Send serializes with json.Marshal, when json.Marshal fails.
SerializationFails(v) ==
    /\ v.kind \in {"Map", "Struct"} \/ (v.kind = "Slice" /\ v.type = "ifaces")
    /\ v.json = "error"

\* C4: when the payload's serialization fails, Send returns the error and
\* the transport is not invoked.
C4_SerializationFailureAborts ==
    \A c \in Procs :
        Started(c) /\ ~procs[c].arg.Url.malformed /\ SerializationFails(procs[c].arg.Payload)
            => /\ ~Sent(c)
               /\ procs[c].pc = "done" => ~IsNil(procs[c].err)

\* C5: a Url that does not parse makes Send return an error and no
\* Response, before any client is chosen or made and before the transport
\* is invoked.
C5_MalformedUrlAborts ==
    \A c \in Procs :
        Started(c) /\ procs[c].arg.Url.malformed
            => /\ procs[c].pc = "done"
               /\ ~IsNil(procs[c].err)
               /\ IsNil(procs[c].response)
               /\ IsNil(procs[c].client)
               /\ ~Sent(c)

\* C5 witness: a Send of a malformed Url has returned.
C5_Witness ==
    \E c \in Procs :
        procs[c].pc = "done" /\ procs[c].arg.Url.malformed /\ ~IsNil(procs[c].err)

\* A send that captured a non-empty response body and returned it.
Captured(c) ==
    /\ procs[c].pc = "done"
    /\ IsNil(procs[c].err)
    /\ ~IsNil(procs[c].resp)
    /\ ~procs[c].arg.NotProcessBody
    /\ Len(procs[c].r.body) > 0

\* C6: with the body captured and not empty, Result is decoded into exactly
\* when status <= 200 and Result was supplied, Error exactly when status >
\* 200 and Error was supplied, never both; status 200 with only Error
\* supplied leaves Error as it was.
C6_DecodeThreshold ==
    \A c \in Procs :
        /\ Captured(c) =>
            /\ "Result" \in procs[c].decoded
                  <=> (procs[c].r.status <= 200 /\ ~IsNil(procs[c].arg.Result))
            /\ "Error" \in procs[c].decoded
                  <=> (procs[c].r.status > 200 /\ ~IsNil(procs[c].arg.Error))
            /\ procs[c].decoded # {"Result", "Error"}
            /\ procs[c].r.status = 200 /\ IsNil(procs[c].arg.Result) => IsNil(procs[c].error)
            /\ "Result" \in procs[c].decoded /\ ValidJSON(procs[c].r.body)
                  => procs[c].result = Ptr(procs[c].r.body)
            /\ "Error" \in procs[c].decoded /\ ValidJSON(procs[c].r.body)
                  => procs[c].error = Ptr(procs[c].r.body)
        /\ "Result" \notin procs[c].decoded => IsNil(procs[c].result)
        /\ "Error" \notin procs[c].decoded => IsNil(procs[c].error)

\* C6 witness: status 200, a JSON body, only the error destination
\* supplied, and Send has returned with it untouched.
C6_Witness ==
    \E c \in Procs :
        /\ Captured(c)
        /\ procs[c].r.status = 200
        /\ ValidJSON(procs[c].r.body)
        /\ IsNil(procs[c].arg.Result) /\ ~IsNil(procs[c].arg.Error)
        /\ IsNil(procs[c].error)

\* C7: the basic-auth credentials are the request's if it has any, else the
\* session's if it has any, else the URL's if it has any, else none.
C7_CredentialPrecedence ==
    \A c \in Procs : ~IsNil(procs[c].req) =>
        LET auth == Deref(procs[c].req).BasicAuth
            ru == procs[c].arg.Userinfo
            su == session.Userinfo
            uu == procs[c].arg.Url.user
        IN  /\ ~IsNil(ru) => auth = ru
            /\ IsNil(ru) /\ ~IsNil(su) => auth = su
            /\ IsNil(ru) /\ IsNil(su) => auth = uu
            /\ Sent(c) => Wire(c).req.BasicAuth = auth

\* C7 witness: all three credentials present, and the request's were sent.
C7_Witness ==
    \E c \in Procs :
        /\ Sent(c)
        /\ ~IsNil(procs[c].arg.Userinfo)
        /\ ~IsNil(session.Userinfo)
        /\ ~IsNil(procs[c].arg.Url.user)
        /\ Wire(c).req.BasicAuth = Credentials("request")

\* C8: Send never panics.
C8_SendNeverPanics == ~crashed /\ \A c \in Procs : procs[c].pc # "panic"

\* C9: at most one client is ever made for the session, and every send
\* goes out on the client Session.Client holds.
C9_OneClientForAllSends ==
    /\ Len(clients) <= 1
    /\ \A c \in Procs : Sent(c) => Ptr(Wire(c).client) = session.Client

\* C10 (as claimed): once the transport has returned a response, its body
\* is closed when Send returns, whichever way it returns.
C10_BodyClosedOnEveryReturn ==
    \A c \in Procs :
        procs[c].pc = "done" /\ ~IsNil(procs[c].resp) => Deref(procs[c].resp).closed

\* C10 (amended): once the transport has returned a response, its body is
\* closed when Send returns exactly when the body was captured
\* (NotProcessBody unset), also when reading it failed.
C10_BodyClosedIffCaptured ==
    \A c \in Procs :
        procs[c].pc = "done" /\ ~IsNil(procs[c].resp)
            => (Deref(procs[c].resp).closed <=> ~procs[c].arg.NotProcessBody)

\* C10 witness: reading the body failed, Send returned the error, and the
\* body is closed.
C10_Witness ==
    \E c \in Procs :
        /\ procs[c].pc = "done"
        /\ ~IsNil(procs[c].resp)
        /\ Deref(procs[c].resp).readErr
        /\ ~IsNil(procs[c].err)
        /\ Deref(procs[c].resp).closed

====
